---------------------------- MODULE Spec2Model ----------------------------
(***************************************************************************)
(* Model of the vocabulary trainer generated by django_lang_app.py: the    *)
(* models Word / UserProgress / StudySession (MODELS_PY) and the views     *)
(* practice / check_answer / word_list (VIEWS_PY).                         *)
(*                                                                         *)
(* The database tables are sequences of rows, the primary key of a row is  *)
(* its index (AutoField).  Every ORM call is one database statement (the   *)
(* settings use sqlite3 in autocommit mode, no ATOMIC_REQUESTS, no         *)
(* transaction.atomic in the views), so a view is a sequence of atomic     *)
(* steps, one per database statement or clock read, and the steps of       *)
(* different requests interleave.  Time is counted in ticks of a           *)
(* monotonic clock, TicksPerDay ticks to the day.                          *)
(***************************************************************************)
EXTENDS Integers, Sequences, FiniteSets, TLC

VARIABLES clock, words, progress, sessions, req, prac, page, listing

vars == <<clock, words, progress, sessions, req, prac, page, listing>>

---------------------------------------------------------------------------
(* Bounds of the model.                                                    *)

TicksPerDay == 1
MaxDays == 1
NUsers == 2
MaxReqs == 2
MaxServing == 1
MaxRacing == 2
MaxSessions == 1
MaxCount == 30
ManyWords == 12
MaxRows == 3

Day == TicksPerDay
MaxClock == MaxDays * TicksPerDay
Users == 1..NUsers
Reqs == 1..MaxReqs

Min(a, b) == IF a < b THEN a ELSE b
Max(a, b) == IF a > b THEN a ELSE b

---------------------------------------------------------------------------
(* Strings are sequences of characters over a small alphabet, listed in    *)
(* code-point order.                                                       *)

Chars == <<" ", "A", "B", "a", "b">>

Ord(c) == CHOOSE i \in 1..Len(Chars) : Chars[i] = c

LowerChar(c) == IF c = "A" THEN "a" ELSE IF c = "B" THEN "b" ELSE c

\* str.lower()
Lower(s) == [i \in 1..Len(s) |-> LowerChar(s[i])]

\* str.strip(): drop leading and trailing whitespace
RECURSIVE LStrip(_)
LStrip(s) == IF s # <<>> /\ Head(s) = " " THEN LStrip(Tail(s)) ELSE s

RECURSIVE RStrip(_)
RStrip(s) ==
    IF s # <<>> /\ s[Len(s)] = " " THEN RStrip(SubSeq(s, 1, Len(s) - 1)) ELSE s

Strip(s) == RStrip(LStrip(s))

\* s < t in the byte-wise order of the database's default collation
RECURSIVE StrLess(_, _)
StrLess(s, t) ==
    IF t = <<>> THEN FALSE
    ELSE IF s = <<>> THEN TRUE
    ELSE IF Head(s) # Head(t) THEN Ord(Head(s)) < Ord(Head(t))
    ELSE StrLess(Tail(s), Tail(t))

---------------------------------------------------------------------------
(* Word                                                                    *)

\* the stored difficulty values, in the order the database sorts them
DIFFICULTY_CHOICES == <<"advanced", "beginner", "intermediate">>

DifficultyRank(d) ==
    CHOOSE i \in 1..Len(DIFFICULTY_CHOICES) : DIFFICULTY_CHOICES[i] = d

Word(w, t, d) == [word |-> w, translation |-> t, difficulty |-> d]

WordIds == DOMAIN words

\* Word.Meta.ordering = ['difficulty', 'word']
WordBefore(a, b) ==
    \/ DifficultyRank(words[a].difficulty) < DifficultyRank(words[b].difficulty)
    \/ /\ words[a].difficulty = words[b].difficulty
       /\ StrLess(words[a].word, words[b].word)

WordKey == [a \in WordIds |-> Cardinality({b \in WordIds : WordBefore(b, a)})]

---------------------------------------------------------------------------
(* Query results.  A result ordered by a key is any arrangement of the     *)
(* rows in which the keys do not decrease: the database fixes no order     *)
(* among rows with equal keys.                                             *)

RECURSIVE Orderings(_, _)
Orderings(S, key) ==
    IF S = {} THEN {<<>>}
    ELSE LET least == {a \in S : \A b \in S : key[a] <= key[b]}
         IN  UNION {{<<a>> \o s : s \in Orderings(S \ {a}, key)} : a \in least}

\* queryset[:n]
Slice(s, n) == SubSeq(s, 1, Min(n, Len(s)))

---------------------------------------------------------------------------
(* UserProgress                                                            *)

ProgressIds == DOMAIN progress

\* an in-memory UserProgress instance; id is the primary key of its row
NoObj == [id |-> 0, user |-> 0, word |-> 0, mastery_level |-> 0,
          correct_count |-> 0, incorrect_count |-> 0,
          last_reviewed |-> 0, next_review |-> 0]

\* field defaults: mastery_level 0, counts 0, both timestamps timezone.now
NewProgress(u, w, now) ==
    [user |-> u, word |-> w, mastery_level |-> 0,
     correct_count |-> 0, incorrect_count |-> 0,
     last_reviewed |-> now, next_review |-> now]

Row(obj) ==
    [user |-> obj.user, word |-> obj.word, mastery_level |-> obj.mastery_level,
     correct_count |-> obj.correct_count, incorrect_count |-> obj.incorrect_count,
     last_reviewed |-> obj.last_reviewed, next_review |-> obj.next_review]

\* the instance loaded from (or inserted as) row id
ObjOf(id, row) == [id |-> id] @@ row

Obj(id) == ObjOf(id, progress[id])

\* Matching with the learner left out of the lookup
Matching_any_user(u, w) == {id \in ProgressIds : progress[id].word = w}

\* rows matching user=u, word=w
Matching(u, w) ==
    {id \in ProgressIds : progress[id].user = u /\ progress[id].word = w}

\* Meta.unique_together = ['user', 'word']: may a row for (u, w) be inserted?
unique_together(u, w) == Matching(u, w) = {}

intervals == <<1, 3, 7, 14, 30, 60>>

\* list[k]: k counts from 0, a negative k from the end; any other k raises
\* IndexError
InRange(list, k) == 0 - Len(list) <= k /\ k < Len(list)

Item(list, k) == IF k >= 0 THEN list[k + 1] ELSE list[Len(list) + k + 1]

\* update_level without the floor max(0, ...)
update_level_no_floor(self, is_correct) ==
    IF is_correct
    THEN [self EXCEPT !.correct_count = @ + 1,
                      !.mastery_level = Min(5, @ + 1)]
    ELSE [self EXCEPT !.incorrect_count = @ + 1,
                      !.mastery_level = @ - 1]

\* update_level without the cap min(5, ...)
update_level_no_cap(self, is_correct) ==
    IF is_correct
    THEN [self EXCEPT !.correct_count = @ + 1,
                      !.mastery_level = @ + 1]
    ELSE [self EXCEPT !.incorrect_count = @ + 1,
                      !.mastery_level = Max(0, @ - 1)]

\* update_progress, the counters and the level (the if / else)
update_level(self, is_correct) ==
    IF is_correct
    THEN [self EXCEPT !.correct_count = @ + 1,
                      !.mastery_level = Min(5, @ + 1)]
    ELSE [self EXCEPT !.incorrect_count = @ + 1,
                      !.mastery_level = Max(0, @ - 1)]

\* update_days with the table indexed by the level before the answer
update_days_old_level(self, is_correct) ==
    IF is_correct THEN Item(intervals, self.mastery_level - 1) ELSE 1

\* update_days with the table also used after a wrong answer
update_days_always_table(self, is_correct) ==
    Item(intervals, self.mastery_level)

\* update_progress, the local variable days
update_days(self, is_correct) ==
    IF is_correct THEN Item(intervals, self.mastery_level) ELSE 1

\* does intervals[self.mastery_level] raise IndexError?
update_raises(self, is_correct) ==
    is_correct /\ ~InRange(intervals, self.mastery_level)

\* self.last_reviewed = timezone.now()
update_last_reviewed(self, now) == [self EXCEPT !.last_reviewed = now]

\* update_next_review with the interval one day short
update_next_review_short(self, now, days) ==
    [self EXCEPT !.next_review = now + (days - 1) * Day]

\* self.next_review = timezone.now() + timedelta(days=days)
update_next_review(self, now, days) ==
    [self EXCEPT !.next_review = now + days * Day]

---------------------------------------------------------------------------
(* success_rate computes in binary floating point: a / b and x * 100 are   *)
(* each rounded to MantissaBits significant bits, ties to even, and int()  *)
(* drops the fraction.  A positive float is [bits, exp]: bits is the       *)
(* significand, most significant bit first and 1, and the first bit has    *)
(* the weight 2^exp.  Integers are kept below 2^31 throughout: the         *)
(* significand is multiplied in limbs of LimbBits bits.                    *)

MantissaBits == 53
LimbBits == 18

\* the next n >= 1 bits of the quotient r / t, and the remainder
RECURSIVE DivBits(_, _, _)
DivBits(r, t, n) ==
    IF n = 1
    THEN IF 2 * r >= t THEN [bits |-> <<1>>, rem |-> 2 * r - t]
                       ELSE [bits |-> <<0>>, rem |-> 2 * r]
    ELSE LET first == DivBits(r, t, n \div 2)
             rest == DivBits(first.rem, t, n - (n \div 2))
         IN  [bits |-> first.bits \o rest.bits, rem |-> rest.rem]

\* bits + 1 (one bit longer when every bit is 1)
Incr(bits) ==
    LET zeros == {i \in 1..Len(bits) : bits[i] = 0}
    IN  IF zeros = {} THEN <<1>> \o [i \in 1..Len(bits) |-> 0]
        ELSE LET p == CHOOSE i \in zeros : \A j \in zeros : j <= i
             IN  [i \in 1..Len(bits) |->
                     IF i < p THEN bits[i] ELSE IF i = p THEN 1 ELSE 0]

\* round the exact value (bits, then a non-zero tail iff sticky, first bit
\* of weight 2^exp) to MantissaBits bits, to nearest, ties to even
RoundNearestEven(bits, sticky, exp) ==
    LET keep == SubSeq(bits, 1, MantissaBits)
        guard == Len(bits) > MantissaBits /\ bits[MantissaBits + 1] = 1
        tail == sticky \/ \E i \in (MantissaBits + 2)..Len(bits) : bits[i] = 1
        up == guard /\ (tail \/ keep[MantissaBits] = 1)
        inc == Incr(keep)
    IN  IF ~up THEN [bits |-> keep, exp |-> exp]
        ELSE IF Len(inc) > MantissaBits
        THEN [bits |-> SubSeq(inc, 1, MantissaBits), exp |-> exp + 1]
        ELSE [bits |-> inc, exp |-> exp]

\* the least k with a * 2^k >= b
RECURSIVE Shift(_, _)
Shift(a, b) == IF a >= b THEN 0 ELSE 1 + Shift(2 * a, b)

\* a / b for integers 0 < a <= b (true division)
float_div(a, b) ==
    LET k == Shift(a, b)
        q == DivBits(a * 2^k - b, b, MantissaBits)
    IN  RoundNearestEven(<<1>> \o q.bits, q.rem # 0, 0 - k)

\* the integer with these bits (fewer than 31)
RECURSIVE BitsInt(_)
BitsInt(bits) ==
    IF bits = <<>> THEN 0
    ELSE IF Len(bits) = 1 THEN bits[1]
    ELSE LET h == Len(bits) \div 2
         IN  BitsInt(SubSeq(bits, 1, h)) * 2^(Len(bits) - h)
             + BitsInt(SubSeq(bits, h + 1, Len(bits)))

\* the w low bits of the integer c
IntBits(c, w) == [i \in 1..w |-> (c \div 2^(w - i)) % 2]

\* the number of bits of the integer c >= 0
BitLen(c) == CHOOSE w \in 0..30 : c < 2^w /\ (w = 0 \/ c >= 2^(w - 1))

\* the bits of bits * m, for MantissaBits bits and 0 < m < 2^12
MulBits(bits, m) ==
    LET lo == BitsInt(SubSeq(bits, Len(bits) - LimbBits + 1, Len(bits))) * m
        mid == BitsInt(SubSeq(bits, Len(bits) - 2 * LimbBits + 1,
                              Len(bits) - LimbBits)) * m
               + (lo \div 2^LimbBits)
        hi == BitsInt(SubSeq(bits, 1, Len(bits) - 2 * LimbBits)) * m
              + (mid \div 2^LimbBits)
    IN  IntBits(hi, BitLen(hi)) \o IntBits(mid % 2^LimbBits, LimbBits)
        \o IntBits(lo % 2^LimbBits, LimbBits)

\* x * m for a float x and an integer 0 < m < 2^12
float_mul(x, m) ==
    LET p == MulBits(x.bits, m)
    IN  RoundNearestEven(p, FALSE, x.exp + Len(p) - MantissaBits)

\* int(x) for a float 0 < x < 2^30
float_int(x) ==
    IF x.exp < 0 THEN 0 ELSE BitsInt(SubSeq(x.bits, 1, x.exp + 1))

\* UserProgress.success_rate
success_rate(self) ==
    LET total == self.correct_count + self.incorrect_count
    IN  IF total = 0 THEN 0
        ELSE IF self.correct_count = 0 THEN 0
        ELSE float_int(float_mul(float_div(self.correct_count, total), 100))

---------------------------------------------------------------------------
(* StudySession: the owner and the two counters                            *)

SessionIds == DOMAIN sessions

NewSession(u) == [user |-> u, words_practiced |-> 0, correct_answers |-> 0]

NoSession == [id |-> 0, user |-> 0, words_practiced |-> 0, correct_answers |-> 0]

\* session_counted with words_practiced counting the wrong answers only
session_counted_wrong_only(id, s, is_correct) ==
    [id |-> id, user |-> s.user,
     words_practiced |-> IF is_correct THEN s.words_practiced
                         ELSE s.words_practiced + 1,
     correct_answers |-> IF is_correct THEN s.correct_answers + 1
                         ELSE s.correct_answers]

\* the instance loaded from row id after session.words_practiced += 1 and,
\* for a correct answer, session.correct_answers += 1
session_counted(id, s, is_correct) ==
    [id |-> id, user |-> s.user,
     words_practiced |-> s.words_practiced + 1,
     correct_answers |-> IF is_correct THEN s.correct_answers + 1
                         ELSE s.correct_answers]

\* StudySession.accuracy
accuracy(self) ==
    IF self.words_practiced = 0 THEN 0
    ELSE IF self.correct_answers = 0 THEN 0
    ELSE float_int(float_mul(float_div(self.correct_answers,
                                       self.words_practiced), 100))

---------------------------------------------------------------------------
(* check_answer: one request per slot of req, the slots used in order.     *)
(*   pc "idle"         the request has not arrived                         *)
(*      "create"       get_or_create found no row, before the insert       *)
(*      "update"       holds progress, before update_progress              *)
(*      "stamp"        in update_progress, before next_review is set       *)
(*      "save"         in update_progress, before self.save()              *)
(*      "session_get"  before StudySession.objects.get                     *)
(*      "session_save" before session.save()                               *)
(*      "done"         responded, status is the HTTP status                *)
(* The locals of a request are gone when it has responded.  The server     *)
(* handles at most `workers' requests at a time.                           *)

IdleReq == [pc |-> "idle", user |-> 0, word |-> 0, is_correct |-> FALSE,
            session_id |-> 0, obj |-> NoObj, days |-> 0,
            sess |-> NoSession, status |-> 0]

Methods == {"GET", "POST"}

\* the values of the POST parameter answer ('' when it is missing)
Answers == {<<"a", "b">>, <<" ", "A", "B", " ">>, <<"b">>, <<>>}

\* is_correct = user_answer == word.translation.lower()
IsCorrect(answer, w) == Lower(Strip(answer)) = Lower(words[w].translation)

Respond(status) == [IdleReq EXCEPT !.pc = "done", !.status = status]

InFlight == {r \in Reqs : req[r].pc \notin {"idle", "done"}}

\* UserProgress.objects.get(user=u, word=w) of get_or_create
Lookup(r, u, w) ==
    LET found == Matching(u, w)
    IN  IF found = {}
        THEN {[r EXCEPT !.pc = "create"]}
        ELSE {[r EXCEPT !.pc = "update", !.obj = Obj(id)] : id \in found}

\* the request arrives: the method test, get_object_or_404, is_correct and
\* the lookup of get_or_create
Arrive(workers, r, u, method, word_id, answer, session_id) ==
    /\ req[r].pc = "idle"
    /\ r > 1 => req[r - 1].pc # "idle"
    /\ Cardinality(InFlight) < workers
    /\ IF method # "POST"
       THEN req' = [req EXCEPT ![r] = Respond(400)]
       ELSE IF word_id \notin WordIds
       THEN req' = [req EXCEPT ![r] = Respond(404)]
       ELSE \E next \in Lookup([IdleReq EXCEPT
                                   !.user = u, !.word = word_id,
                                   !.is_correct = IsCorrect(answer, word_id),
                                   !.session_id = session_id], u, word_id) :
               req' = [req EXCEPT ![r] = next]
    /\ UNCHANGED <<clock, words, progress, sessions, prac, page, listing>>

\* get_or_create: the insert.  The unique constraint rejects a second row
\* for the pair (IntegrityError) and get_or_create then looks the pair up
\* again; rows are never deleted, so this lookup finds the row, and it is
\* taken in the same step as the failed insert, which changed nothing.
CreateProgress(r) ==
    /\ req[r].pc = "create"
    /\ IF unique_together(req[r].user, req[r].word)
       THEN /\ progress' = Append(progress,
                                  NewProgress(req[r].user, req[r].word, clock))
            /\ req' = [req EXCEPT ![r].pc = "update",
                                  ![r].obj = ObjOf(Len(progress) + 1,
                                                   NewProgress(req[r].user,
                                                               req[r].word,
                                                               clock))]
       ELSE /\ \E next \in Lookup(req[r], req[r].user, req[r].word) :
                  req' = [req EXCEPT ![r] = next]
            /\ UNCHANGED progress
    /\ UNCHANGED <<clock, words, sessions, prac, page, listing>>

\* update_progress up to self.last_reviewed = timezone.now(); an uncaught
\* IndexError ends the request with status 500
UpdateProgress(r) ==
    /\ req[r].pc = "update"
    /\ LET self == update_level(req[r].obj, req[r].is_correct)
       IN  IF update_raises(self, req[r].is_correct)
           THEN req' = [req EXCEPT ![r] = Respond(500)]
           ELSE req' = [req EXCEPT
                          ![r].pc = "stamp",
                          ![r].obj = update_last_reviewed(self, clock),
                          ![r].days = update_days(self, req[r].is_correct)]
    /\ UNCHANGED <<clock, words, progress, sessions, prac, page, listing>>

\* update_progress: self.next_review = timezone.now() + timedelta(days=days)
StampProgress(r) ==
    /\ req[r].pc = "stamp"
    /\ req' = [req EXCEPT ![r].pc = "save",
                          ![r].obj = update_next_review(@, clock, req[r].days)]
    /\ UNCHANGED <<clock, words, progress, sessions, prac, page, listing>>

\* update_progress: self.save() writes every field of the row
SaveProgress(r) ==
    /\ req[r].pc = "save"
    /\ progress' = [progress EXCEPT ![req[r].obj.id] = Row(req[r].obj)]
    /\ req' = [req EXCEPT ![r].pc = "session_get"]
    /\ UNCHANGED <<clock, words, sessions, prac, page, listing>>

\* session = StudySession.objects.get(id=session_id) and the two increments;
\* DoesNotExist is not caught and ends the request with status 500
GetSession(r) ==
    /\ req[r].pc = "session_get"
    /\ IF req[r].session_id \in SessionIds
       THEN req' = [req EXCEPT
                      ![r].pc = "session_save",
                      ![r].sess = session_counted(req[r].session_id,
                                                  sessions[req[r].session_id],
                                                  req[r].is_correct)]
       ELSE req' = [req EXCEPT ![r] = Respond(500)]
    /\ UNCHANGED <<clock, words, progress, sessions, prac, page, listing>>

\* session.save() and the JSON response
SaveSession(r) ==
    /\ req[r].pc = "session_save"
    /\ sessions' = [sessions EXCEPT ![req[r].sess.id] =
                      [user |-> req[r].sess.user,
                       words_practiced |-> req[r].sess.words_practiced,
                       correct_answers |-> req[r].sess.correct_answers]]
    /\ req' = [req EXCEPT ![r] = Respond(200)]
    /\ UNCHANGED <<clock, words, progress, prac, page, listing>>

---------------------------------------------------------------------------
(* practice: the requests are handled one at a time.                      *)
(*   pc "idle"  no request in progress                                     *)
(*      "new"   due_words is evaluated, before the new_words query         *)
(* page is the page the last request rendered.                             *)

BatchSize == 10

IdlePrac == [pc |-> "idle", user |-> 0, due_words |-> <<>>]

NoPage == [user |-> 0, no_words |-> FALSE, words |-> <<>>, session_id |-> 0]

\* UserProgress.objects.filter(user=request.user, next_review__lte=now)
DueIds(u) ==
    {id \in ProgressIds : progress[id].user = u /\ progress[id].next_review <= clock}

\* NextReviewKey for the ordering ['-next_review']
NextReviewKey_descending == [id \in ProgressIds |-> 0 - progress[id].next_review]

\* UserProgress.Meta.ordering = ['next_review']
NextReviewKey == [id \in ProgressIds |-> progress[id].next_review]

\* the results the due_words query may return: filtered, ordered, [:10]
due_words(u) ==
    {Slice(s, BatchSize) : s \in Orderings(DueIds(u), NextReviewKey)}

\* UserProgress.objects.filter(user=request.user).values_list('word_id')
learned_word_ids(u) ==
    {progress[id].word : id \in {i \in ProgressIds : progress[i].user = u}}

\* new_words without the exclude(id__in=learned_word_ids)
new_words_no_exclude(u, due) ==
    {Slice(s, BatchSize - Len(due)) : s \in Orderings(WordIds, WordKey)}

\* the results the new_words query may return: [:10 - len(due_words)]
new_words(u, due) ==
    {Slice(s, BatchSize - Len(due)) :
        s \in Orderings(WordIds \ learned_word_ids(u), WordKey)}

\* what the template renders for one element of context['words']: the
\* element is the UserProgress itself for a due word and the Word for a new
\* one; id is its primary key, item the vocabulary item it stands for
DueEntry(id) == [model |-> "UserProgress", id |-> id, item |-> progress[id].word]

NewEntry(w) == [model |-> "Word", id |-> w, item |-> w]

\* len(due_words) evaluates the due_words query
PracticeDue(u) ==
    /\ prac.pc = "idle"
    /\ Len(sessions) < MaxSessions
    /\ \E due \in due_words(u) :
          prac' = [pc |-> "new", user |-> u, due_words |-> due]
    /\ UNCHANGED <<clock, words, progress, sessions, req, page, listing>>

\* the new_words query, the list words, the new StudySession and the page
PracticeRender ==
    /\ prac.pc = "new"
    /\ \E new \in new_words(prac.user, prac.due_words) :
          LET batch == [i \in 1..Len(prac.due_words) |->
                           DueEntry(prac.due_words[i])]
                       \o [i \in 1..Len(new) |-> NewEntry(new[i])]
          IN  IF batch = <<>>
              THEN /\ page' = [user |-> prac.user, no_words |-> TRUE,
                               words |-> <<>>, session_id |-> 0]
                   /\ UNCHANGED sessions
              ELSE /\ sessions' = Append(sessions, NewSession(prac.user))
                   /\ page' = [user |-> prac.user, no_words |-> FALSE,
                               words |-> batch,
                               session_id |-> Len(sessions) + 1]
    /\ prac' = IdlePrac
    /\ UNCHANGED <<clock, words, progress, req, listing>>

---------------------------------------------------------------------------
(* word_list: the words, optionally of one difficulty, each with the       *)
(* learner's progress; listing is the list the last request rendered, an   *)
(* entry showing the mastery level and the success rate, or progress       *)
(* FALSE for a word without a UserProgress.                                *)

\* the values of the GET parameter difficulty ('' when it is missing)
Difficulties == {""} \cup {DIFFICULTY_CHOICES[i] : i \in 1..Len(DIFFICULTY_CHOICES)}

ListEntry(u, w) ==
    LET mine == Matching(u, w)
    IN  IF mine = {}
        THEN {[word |-> w, progress |-> FALSE, mastery_level |-> 0,
               success_rate |-> 0]}
        ELSE {[word |-> w, progress |-> TRUE,
               mastery_level |-> progress[id].mastery_level,
               success_rate |-> success_rate(progress[id])] : id \in mine}

WordList(u, difficulty) ==
    /\ LET shown == IF difficulty = "" THEN WordIds
                    ELSE {w \in WordIds : words[w].difficulty = difficulty}
       IN  \E s \in Orderings(shown, WordKey) :
              \E l \in [1..Len(s) -> UNION {ListEntry(u, w) : w \in shown}] :
                 /\ \A i \in 1..Len(s) : l[i] \in ListEntry(u, s[i])
                 /\ listing' = l
    /\ UNCHANGED <<clock, words, progress, sessions, req, prac, page>>

---------------------------------------------------------------------------
(* The clock                                                               *)

Tick ==
    /\ clock < MaxClock
    /\ clock' = clock + 1
    /\ UNCHANGED <<words, progress, sessions, req, prac, page, listing>>

---------------------------------------------------------------------------
(* The application after installation: two words, nobody has practised.    *)

InitWords ==
    <<Word(<<"a">>, <<"A", "b">>, "beginner"),
      Word(<<"B">>, <<"b">>, "beginner")>>

Init ==
    /\ clock = 0
    /\ words = InitWords
    /\ progress = <<>>
    /\ sessions = <<>>
    /\ req = [r \in Reqs |-> IdleReq]
    /\ prac = IdlePrac
    /\ page = NoPage
    /\ listing = <<>>

CheckAnswer(workers) ==
    \/ \E r \in Reqs, u \in Users, method \in Methods,
          word_id \in 0..Len(words), answer \in Answers,
          session_id \in 0..MaxSessions :
          Arrive(workers, r, u, method, word_id, answer, session_id)
    \/ \E r \in Reqs : CreateProgress(r)
    \/ \E r \in Reqs : UpdateProgress(r)
    \/ \E r \in Reqs : StampProgress(r)
    \/ \E r \in Reqs : SaveProgress(r)
    \/ \E r \in Reqs : GetSession(r)
    \/ \E r \in Reqs : SaveSession(r)

Practice ==
    \/ \E u \in Users : PracticeDue(u)
    \/ PracticeRender

Next == CheckAnswer(MaxServing) \/ Practice \/ Tick

Spec == Init /\ [][Next]_vars

---------------------------------------------------------------------------
(* Racing answers: the server handles MaxRacing requests at a time, all    *)
(* within one tick of the clock.  Learner 1 has opened a practice page     *)
(* before; nobody has answered.                                            *)

InitRace ==
    /\ clock = 0
    /\ words = InitWords
    /\ progress = <<>>
    /\ sessions = <<NewSession(1)>>
    /\ req = [r \in Reqs |-> IdleReq]
    /\ prac = IdlePrac
    /\ page = NoPage
    /\ listing = <<>>

NextRace == CheckAnswer(MaxRacing)

SpecRace == InitRace /\ [][NextRace]_vars

---------------------------------------------------------------------------
(* Every level: learner 1 has opened a practice page before and has        *)
(* either never answered or has learned word 1 up to some level.           *)

\* the row of a learner who answered word w correctly m times in a row, the
\* last time exactly as long ago as the interval this answer set
Learned(u, w, m) ==
    [user |-> u, word |-> w, mastery_level |-> m,
     correct_count |-> m, incorrect_count |-> 0,
     last_reviewed |-> 0 - intervals[m + 1] * Day, next_review |-> 0]

InitLevels ==
    /\ clock = 0
    /\ words = InitWords
    /\ progress \in {<<>>} \cup {<<Learned(1, 1, m)>> : m \in 1..5}
    /\ sessions = <<NewSession(1)>>
    /\ req = [r \in Reqs |-> IdleReq]
    /\ prac = IdlePrac
    /\ page = NoPage
    /\ listing = <<>>

NextLevels == CheckAnswer(MaxServing) \/ Tick

SpecLevels == InitLevels /\ [][NextLevels]_vars

---------------------------------------------------------------------------
(* A large vocabulary: ManyWords words.  Learner 2 has just answered       *)
(* words 1 and 2, or every word, correctly; learner 1 has answered the     *)
(* first n words once each, word k as many days ago as k - 1, every third  *)
(* one correctly.                                                          *)

Letter(k) == Chars[2 + ((k \div 3) % 4)]

ManyWordsTable ==
    [k \in 1..ManyWords |->
        Word(<<Letter(k)>>, <<"a">>, DIFFICULTY_CHOICES[1 + (k % 3)])]

\* the row after one answer at time t: update_progress on a new row
Answered(u, w, is_correct, t) ==
    LET self == update_level(ObjOf(0, NewProgress(u, w, t)), is_correct)
    IN  Row(update_next_review(update_last_reviewed(self, t), t,
                               update_days(self, is_correct)))

InitPractice ==
    /\ clock = 0
    /\ words = ManyWordsTable
    /\ \E n \in 0..ManyWords, m \in {2, ManyWords} :
          progress = [k \in 1..m |-> Answered(2, k, TRUE, 0)]
                     \o [k \in 1..n |->
                            Answered(1, k, k % 3 = 0, 0 - (k - 1) * Day)]
    /\ sessions = <<>>
    /\ req = [r \in Reqs |-> IdleReq]
    /\ prac = IdlePrac
    /\ page = NoPage
    /\ listing = <<>>

NextPractice == Practice \/ Tick

SpecPractice == InitPractice /\ [][NextPractice]_vars

---------------------------------------------------------------------------
(* Success rates: learner 1 has answered word 1 wrongly i times and then   *)
(* correctly c times, or is answering it for the first time.               *)

\* the row after i wrong answers followed by c correct ones, c + i > 0,
\* the last one at time t
Practised(u, w, c, i, t) ==
    [user |-> u, word |-> w, mastery_level |-> Min(5, c),
     correct_count |-> c, incorrect_count |-> i, last_reviewed |-> t,
     next_review |-> t + Day * (IF c > 0 THEN intervals[Min(5, c) + 1] ELSE 1)]

InitRate ==
    /\ clock = 0
    /\ words = InitWords
    /\ \E c \in 0..MaxCount, i \in 0..MaxCount :
          IF c + i = 0
          THEN /\ progress = <<NewProgress(1, 1, 0)>>
               /\ req = [r \in Reqs |->
                           IF r = 1
                           THEN [IdleReq EXCEPT
                                    !.pc = "update", !.user = 1, !.word = 1,
                                    !.obj = ObjOf(1, NewProgress(1, 1, 0))]
                           ELSE IdleReq]
          ELSE /\ progress = <<Practised(1, 1, c, i, 0)>>
               /\ req = [r \in Reqs |-> IdleReq]
    /\ sessions = <<>>
    /\ prac = IdlePrac
    /\ page = NoPage
    /\ listing = <<>>

NextRate == \E u \in Users, difficulty \in Difficulties : WordList(u, difficulty)

SpecRate == InitRate /\ [][NextRate]_vars

---------------------------------------------------------------------------
(* Answering from the practice page.  The script of the page keeps, for    *)
(* every element of context['words'], its id, and checkAnswer() posts      *)
(* word_id = that id, the answer typed and the session_id of the page, as  *)
(* the learner the page was rendered for.                                  *)

\* checkAnswer() for entry k of the page that was rendered last
PageAnswer(workers, r, k, answer) ==
    /\ ~page.no_words
    /\ k \in 1..Len(page.words)
    /\ Arrive(workers, r, page.user, "POST", page.words[k].id, answer,
              page.session_id)

\* the steps of check_answer after the arrival of the request
Serve ==
    \/ \E r \in Reqs : CreateProgress(r)
    \/ \E r \in Reqs : UpdateProgress(r)
    \/ \E r \in Reqs : StampProgress(r)
    \/ \E r \in Reqs : SaveProgress(r)
    \/ \E r \in Reqs : GetSession(r)
    \/ \E r \in Reqs : SaveSession(r)

\* the (learner, word) pairs
Pairs == Users \X (1..Len(InitWords))

\* the orders in which up to MaxRows different pairs were first answered
FirstAnswers ==
    {s \in UNION {[1..n -> Pairs] : n \in 0..MaxRows} :
        \A j, k \in 1..Len(s) : j # k => s[j] # s[k]}

\* The learners have answered some words once each, wrongly, a day ago, and
\* no practice page is open.
InitPage ==
    /\ clock = 0
    /\ words = InitWords
    /\ \E s \in FirstAnswers :
          progress = [k \in 1..Len(s) |->
                         Answered(s[k][1], s[k][2], FALSE, 0 - Day)]
    /\ sessions = <<>>
    /\ req = [r \in Reqs |-> IdleReq]
    /\ prac = IdlePrac
    /\ page = NoPage
    /\ listing = <<>>

NextPage ==
    \/ Practice
    \/ \E r \in Reqs, k \in 1..BatchSize, answer \in Answers :
          PageAnswer(MaxServing, r, k, answer)
    \/ Serve
    \/ Tick

SpecPage == InitPage /\ [][NextPage]_vars

---------------------------------------------------------------------------
(* The properties.                                                         *)

\* the instances of UserProgress that requests hold
Held == {req[r].obj : r \in {q \in Reqs : req[q].obj.id # 0}}

\* request r takes the step from pc a to pc b
Steps(r, a, b) == req[r].pc = a /\ req'[r].pc = b

\* C1: masteryLevel is an integer in [0,5] in every reachable state, in the
\* rows of the table and in the instances the requests are updating.
C1_MasteryInRange ==
    /\ \A id \in ProgressIds : progress[id].mastery_level \in 0..5
    /\ \A self \in Held : self.mastery_level \in 0..5

\* a correct answer at level 5 and a wrong answer at level 0 have been saved
C1_Witness ==
    /\ \E id \in ProgressIds :
          progress[id].mastery_level = 5 /\ progress[id].correct_count = 6
    /\ \E id \in ProgressIds :
          /\ progress[id].mastery_level = 0
          /\ progress[id].correct_count = 0
          /\ progress[id].incorrect_count = 1

\* the interval table of the claims C3 and C4, level 0 first
ClaimedIntervals == <<1, 3, 7, 14, 30, 60>>

\* C3: an update with a correct answer sets the level to min(5, old + 1),
\* adds 1 to correctCount, leaves incorrectCount alone, and then sets
\* nextReviewAt to the time of that assignment plus T[new level] days.
C3_CorrectUpdate ==
    [][\A r \in Reqs :
          /\ (req[r].is_correct /\ Steps(r, "update", "stamp"))
                => /\ req'[r].obj.mastery_level
                        = Min(5, req[r].obj.mastery_level + 1)
                   /\ req'[r].obj.correct_count = req[r].obj.correct_count + 1
                   /\ req'[r].obj.incorrect_count = req[r].obj.incorrect_count
          /\ (req[r].is_correct /\ Steps(r, "stamp", "save"))
                => /\ req'[r].obj.next_review
                        = clock + ClaimedIntervals[req[r].obj.mastery_level + 1]
                                  * Day
                   /\ req'[r].obj.mastery_level = req[r].obj.mastery_level
                   /\ req'[r].obj.correct_count = req[r].obj.correct_count
                   /\ req'[r].obj.incorrect_count = req[r].obj.incorrect_count
          /\ (req[r].is_correct /\ Steps(r, "update", "done")) => FALSE]_vars

\* a correct answer at level 5 is about to be saved with level 5 and 60
\* days, and a first correct answer has been saved with level 1 and 3 days
C3_Witness ==
    /\ \E r \in Reqs :
          /\ req[r].pc = "save" /\ req[r].is_correct
          /\ req[r].obj.mastery_level = 5 /\ req[r].obj.correct_count = 6
          /\ req[r].obj.next_review >= req[r].obj.last_reviewed + 60 * Day
    /\ \E id \in ProgressIds :
          /\ progress[id].mastery_level = 1 /\ progress[id].correct_count = 1
          /\ progress[id].incorrect_count = 0
          /\ progress[id].next_review >= progress[id].last_reviewed + 3 * Day

\* C4: an update with a wrong answer sets the level to max(0, old - 1),
\* adds 1 to incorrectCount, leaves correctCount alone, and then sets
\* nextReviewAt to the time of that assignment plus 1 day, whatever the level.
C4_IncorrectUpdate ==
    [][\A r \in Reqs :
          /\ (~req[r].is_correct /\ Steps(r, "update", "stamp"))
                => /\ req'[r].obj.mastery_level
                        = Max(0, req[r].obj.mastery_level - 1)
                   /\ req'[r].obj.incorrect_count
                        = req[r].obj.incorrect_count + 1
                   /\ req'[r].obj.correct_count = req[r].obj.correct_count
          /\ (~req[r].is_correct /\ Steps(r, "stamp", "save"))
                => /\ req'[r].obj.next_review = clock + 1 * Day
                   /\ req'[r].obj.mastery_level = req[r].obj.mastery_level
                   /\ req'[r].obj.correct_count = req[r].obj.correct_count
                   /\ req'[r].obj.incorrect_count = req[r].obj.incorrect_count
          /\ (~req[r].is_correct /\ Steps(r, "update", "done")) => FALSE]_vars

\* a wrong answer at level 5 is about to be saved with level 4, and a wrong
\* answer at level 0 has been saved with level 0
C4_Witness ==
    /\ \E r \in Reqs :
          /\ req[r].pc = "save" /\ ~req[r].is_correct
          /\ req[r].obj.mastery_level = 4 /\ req[r].obj.incorrect_count = 1
          /\ req[r].obj.next_review <= clock + Day
    /\ \E id \in ProgressIds :
          /\ progress[id].mastery_level = 0 /\ progress[id].correct_count = 0
          /\ progress[id].incorrect_count = 1

\* C5: once a row has been updated (its counts are not both 0) its
\* nextReviewAt is at least one day after its lastReviewedAt, so the row is
\* not due while less than a day has passed since lastReviewedAt; the same
\* holds of an updated instance that is about to be saved.
C5_NextAfterLast ==
    /\ \A id \in ProgressIds :
          progress[id].correct_count + progress[id].incorrect_count > 0
             => /\ progress[id].next_review > progress[id].last_reviewed
                /\ progress[id].next_review - progress[id].last_reviewed >= Day
                /\ clock - progress[id].last_reviewed < Day
                      => id \notin DueIds(progress[id].user)
    /\ \A r \in Reqs :
          req[r].pc = "save"
             => req[r].obj.next_review - req[r].obj.last_reviewed >= Day

\* a row saved after a wrong answer, the clock having advanced between the
\* two readings of the time, and not due
C5_Witness ==
    \E id \in ProgressIds :
       /\ progress[id].incorrect_count = 1 /\ progress[id].correct_count = 0
       /\ progress[id].next_review > progress[id].last_reviewed + Day
       /\ id \notin DueIds(progress[id].user)

\* the requests that hold an instance of row id and have yet to save it
Updating(id) ==
    {r \in Reqs : req[r].pc \in {"update", "stamp", "save"} /\ req[r].obj.id = id}

Total(row) == row.correct_count + row.incorrect_count

\* C2: the get-or-create / update / save steps of two submissions for the
\* same pair never interleave: when a request saves its row no other
\* request holds an instance of that row, and the save makes correctCount +
\* incorrectCount of the row one more than it was.
C2_Serialized ==
    [][\A r \in Reqs :
          Steps(r, "save", "session_get")
             => /\ Updating(req[r].obj.id) = {r}
                /\ Total(progress'[req[r].obj.id])
                     = Total(progress[req[r].obj.id]) + 1]_vars

\* C10: correctCount and incorrectCount of a row are never negative and
\* never decrease, and each update that is saved adds 1 to exactly one of
\* them.
C10_CountsGrow ==
    [][/\ \A id \in ProgressIds :
             /\ progress[id].correct_count >= 0
             /\ progress[id].incorrect_count >= 0
             /\ progress'[id].correct_count >= progress[id].correct_count
             /\ progress'[id].incorrect_count >= progress[id].incorrect_count
       /\ \A r \in Reqs :
             Steps(r, "save", "session_get")
                => LET old == progress[req[r].obj.id]
                       new == progress'[req[r].obj.id]
                   IN  \/ /\ new.correct_count = old.correct_count + 1
                          /\ new.incorrect_count = old.incorrect_count
                       \/ /\ new.correct_count = old.correct_count
                          /\ new.incorrect_count = old.incorrect_count + 1]_vars

\* C6: the success rate shown for a row is floor(100 * correctCount /
\* (correctCount + incorrectCount)), or 0 when both counts are 0, and lies
\* in [0,100].
C6_SuccessRateIsFloor ==
    \A k \in 1..Len(listing) :
       listing[k].progress
          => \E id \in ProgressIds :
                /\ progress[id].word = listing[k].word
                /\ listing[k].success_rate \in 0..100
                /\ listing[k].success_rate =
                      IF Total(progress[id]) = 0 THEN 0
                      ELSE (100 * progress[id].correct_count)
                              \div Total(progress[id])

\* the rows of learner u that are due now
DueNow(u) ==
    {id \in ProgressIds : progress[id].user = u /\ progress[id].next_review <= clock}

\* C7: the due part A that practice evaluates for a learner holds only
\* rows of that learner with nextReviewAt <= now, each once, earliest first;
\* it holds all of them when there are at most 10 and otherwise 10 of them,
\* none later than a due row that is left out.
C7_DuePart ==
    [][(prac.pc = "idle" /\ prac'.pc = "new")
          => LET A == prac'.due_words
                 u == prac'.user
             IN  /\ \A k \in 1..Len(A) : A[k] \in DueNow(u)
                 /\ \A j, k \in 1..Len(A) : j # k => A[j] # A[k]
                 /\ \A j, k \in 1..Len(A) :
                       j < k => progress[A[j]].next_review
                                   <= progress[A[k]].next_review
                 /\ Len(A) <= 10
                 /\ Len(A) = Min(10, Cardinality(DueNow(u)))
                 /\ \A id \in DueNow(u) :
                       (\A k \in 1..Len(A) : A[k] # id)
                          => \A k \in 1..Len(A) :
                                progress[A[k]].next_review
                                   <= progress[id].next_review]_vars

\* more than 10 rows of the learner are due and the due part holds 10, while
\* the other learner has rows as well
C7_Witness ==
    /\ prac.pc = "new"
    /\ Len(prac.due_words) = 10
    /\ Cardinality(DueNow(prac.user)) > 10
    /\ \E id \in ProgressIds : progress[id].user # prac.user

\* the words for which learner u has no row
Unreviewed(u) ==
    {w \in WordIds :
        \A id \in ProgressIds : ~(progress[id].user = u /\ progress[id].word = w)}

\* C8: the batch that practice renders is the due part A followed by B; B
\* holds only words for which the learner has no row, min(10 - |A|, number
\* of such words) of them, so none when |A| = 10; the batch has at most 10
\* entries, no vocabulary item twice, and it is empty (the page says there
\* are no words) exactly when A is empty and the learner has a row for
\* every word, A being empty exactly when no row was due.
C8_Batch ==
    [][/\ (prac.pc = "idle" /\ prac'.pc = "new")
             => (prac'.due_words = <<>> <=> DueNow(prac'.user) = {})
       /\ (prac.pc = "new" /\ prac'.pc = "idle")
             => LET A == prac.due_words
                    u == prac.user
                    W == page'.words
                    B == SubSeq(W, Len(A) + 1, Len(W))
                IN  /\ page'.user = u
                    /\ Len(W) >= Len(A)
                    /\ \A k \in 1..Len(A) :
                          /\ W[k].model = "UserProgress"
                          /\ W[k].id = A[k]
                          /\ W[k].item = progress[A[k]].word
                    /\ \A k \in 1..Len(B) :
                          /\ B[k].model = "Word"
                          /\ B[k].id = B[k].item
                          /\ B[k].item \in Unreviewed(u)
                    /\ Len(B) = Min(10 - Len(A), Cardinality(Unreviewed(u)))
                    /\ Len(A) = 10 => B = <<>>
                    /\ Len(W) <= 10
                    /\ \A j, k \in 1..Len(W) : j # k => W[j].item # W[k].item
                    /\ page'.no_words <=> W = <<>>
                    /\ W = <<>> <=> (A = <<>> /\ Unreviewed(u) = {})]_vars

\* a page of 10 entries, due ones followed by new ones, while the learner
\* has more unreviewed words than were added
C8_Witness ==
    /\ prac.pc = "idle"
    /\ ~page.no_words
    /\ Len(page.words) = 10
    /\ page.words[1].model = "UserProgress"
    /\ page.words[10].model = "Word"
    /\ \E w \in Unreviewed(page.user) :
          \A k \in 1..Len(page.words) : page.words[k].item # w

\* C9: the table never holds two rows for one (learner, word); a row is
\* added only by the insert of a check_answer request of that learner for
\* that word when there is none, with mastery 0 and counts 0, and the
\* request goes on to update it; a row changes only when a request of its
\* learner for its word saves the instance it holds; practice adds and
\* changes no row, and no row is ever removed.
C9_OneRowPerPair ==
    /\ [](\A a, b \in ProgressIds :
             (progress[a].user = progress[b].user
              /\ progress[a].word = progress[b].word) => a = b)
    /\ [][/\ Len(progress') >= Len(progress)
          /\ Len(progress') > Len(progress)
                => /\ Len(progress') = Len(progress) + 1
                   /\ \E r \in Reqs :
                         LET new == progress'[Len(progress')]
                         IN  /\ Steps(r, "create", "update")
                             /\ new.user = req[r].user
                             /\ new.word = req[r].word
                             /\ new.mastery_level = 0
                             /\ new.correct_count = 0
                             /\ new.incorrect_count = 0
                             /\ req'[r].obj = ObjOf(Len(progress'), new)
                             /\ \A id \in ProgressIds :
                                   ~(progress[id].user = req[r].user
                                     /\ progress[id].word = req[r].word)
          /\ \A id \in ProgressIds :
                progress'[id] # progress[id]
                   => \E r \in Reqs :
                         /\ Steps(r, "save", "session_get")
                         /\ req[r].obj.id = id
                         /\ progress[id].user = req[r].user
                         /\ progress[id].word = req[r].word
                         /\ progress'[id].user = req[r].user
                         /\ progress'[id].word = req[r].word
          /\ prac' # prac => progress' = progress]_vars

\* a practice page was rendered for a learner without rows, the learner's
\* first answer created a row and the second answer changed the same row
C9_Witness ==
    /\ ~page.no_words
    /\ \E k \in 1..Len(page.words) : page.words[k].model = "Word"
    /\ Len(progress) = 1
    /\ progress[1].user = page.user
    /\ Total(progress[1]) = 2
    /\ \A r \in Reqs : req[r].pc = "done"

\* C11: update is total on its domain: a request that holds an instance with
\* masteryLevel in [0,5] goes through update_progress to the save without
\* an error response, for a correct and for a wrong answer, and the index
\* of the interval-table lookup of a correct answer is within 0..5.
C11_UpdateTotal ==
    [][\A r \in Reqs :
          /\ (req[r].pc = "update" /\ req[r].obj.mastery_level \in 0..5
               /\ req'[r] # req[r])
                => /\ req'[r].pc = "stamp"
                   /\ req'[r].status = 0
                   /\ req[r].is_correct
                        => /\ req'[r].obj.mastery_level \in 0..5
                           /\ InRange(intervals, req'[r].obj.mastery_level)
                           /\ req'[r].days
                                = intervals[req'[r].obj.mastery_level + 1]
          /\ (req[r].pc = "stamp" /\ req'[r] # req[r])
                => req'[r].pc = "save" /\ req'[r].status = 0
          /\ (req[r].pc = "save" /\ req'[r] # req[r])
                => req'[r].pc = "session_get" /\ req'[r].status = 0]_vars

\* a correct answer at level 5 has passed the table lookup with index 5
\* after a wrong answer at level 0 was saved
C11_Witness ==
    /\ \E r \in Reqs :
          /\ req[r].pc = "stamp" /\ req[r].is_correct
          /\ req[r].obj.mastery_level = 5 /\ req[r].obj.correct_count = 6
          /\ req[r].days = 60
    /\ \E id \in ProgressIds :
          /\ progress[id].mastery_level = 0
          /\ progress[id].incorrect_count = 1
          /\ progress[id].correct_count = 0

\* C12: an answer that the practice page submits for one of its entries
\* makes check_answer find the vocabulary item of that entry, compare the
\* answer with the translation of that item and go on to create or update
\* the row of the learner of the page for that item.
C12_PageAnswersShownItem ==
    [][\A r \in Reqs, k \in 1..Len(page.words), answer \in Answers :
          PageAnswer(MaxServing, r, k, answer)
             => /\ req'[r].pc \in {"create", "update"}
                /\ req'[r].user = page.user
                /\ req'[r].word = page.words[k].item
                /\ req'[r].is_correct = IsCorrect(answer, page.words[k].item)
                /\ req'[r].pc = "update"
                     => /\ progress[req'[r].obj.id].user = page.user
                        /\ progress[req'[r].obj.id].word
                             = page.words[k].item]_vars

\* C13: a check_answer request changes only records of the learner who
\* sent it: a row of UserProgress is added or changed only by a request of
\* the learner of that row, and the counters of a StudySession are changed
\* only by a request of the learner of that session.
C13_OwnRecordsOnly ==
    [][/\ \A id \in DOMAIN progress' :
             (id \notin ProgressIds \/ progress'[id] # progress[id])
                => \E r \in Reqs :
                      /\ req[r].pc \in {"create", "save"}
                      /\ req'[r] # req[r]
                      /\ progress'[id].user = req[r].user
                      /\ id \in ProgressIds => progress[id].user = req[r].user
       /\ \A id \in SessionIds :
             sessions'[id] # sessions[id]
                => \E r \in Reqs :
                      /\ Steps(r, "session_save", "done")
                      /\ req[r].sess.id = id
                      /\ sessions[id].user = req[r].user]_vars

\* C14: a check_answer request that ends in an error leaves the tables as
\* they are: the response with an error status changes no row of
\* UserProgress and no StudySession, and a request whose session_id matches
\* no StudySession changes (or creates) none at any of its steps.
C14_ErrorsChangeNothing ==
    [][\A r \in Reqs :
          /\ (req[r].pc # "done" /\ req'[r].pc = "done"
               /\ req'[r].status # 200)
                => progress' = progress /\ sessions' = sessions
          /\ (req[r].pc \notin {"idle", "done"} /\ req'[r] # req[r]
               /\ req[r].session_id \notin SessionIds)
                => progress' = progress /\ sessions' = sessions]_vars

\* C15: in every reachable state, also while answers for one session are
\* handled concurrently, every StudySession row, and every instance of one
\* that a request is about to save, has 0 <= correct_answers <=
\* words_practiced, and its accuracy is an integer in [0,100], 0 when
\* nothing has been practiced.
C15_SessionCounts ==
    /\ \A id \in SessionIds :
          /\ 0 <= sessions[id].correct_answers
          /\ sessions[id].correct_answers <= sessions[id].words_practiced
          /\ accuracy(sessions[id]) \in 0..100
          /\ sessions[id].words_practiced = 0 => accuracy(sessions[id]) = 0
    /\ \A r \in Reqs :
          req[r].pc = "session_save"
             => /\ 0 <= req[r].sess.correct_answers
                /\ req[r].sess.correct_answers <= req[r].sess.words_practiced
                /\ accuracy(req[r].sess) \in 0..100

\* two answers for the session were handled concurrently, a wrong one and a
\* correct one; both are done and the save of the correct one, made last,
\* has overwritten the count of the wrong one
C15_Witness ==
    /\ \A r \in Reqs : req[r].pc = "done" /\ req[r].status = 200
    /\ \E id \in SessionIds :
          /\ sessions[id].words_practiced = 1
          /\ sessions[id].correct_answers = 1
          /\ accuracy(sessions[id]) = 100
    /\ \E id \in ProgressIds : progress[id].incorrect_count = 1

=============================================================================
